---- MODULE Spec2Model ----
(***************************************************************************)
(* Model of the contacts page of holded-nextjs.                            *)
(*                                                                         *)
(*   Home (app/page.tsx)            awaits getContacts, renders the table  *)
(*   getContacts (server action)    auth + listContacts, filter, map,      *)
(*                                  catch -> []                            *)
(*   ContactsTable / getTypeColor   one row per contact, chip colour       *)
(*   holded (SDK singleton)         process-wide client holding the auth   *)
(*                                                                         *)
(* JavaScript values are tagged records [t, v]; a contact record carries   *)
(* all nine fields, an absent field being Undefined (what a property read  *)
(* of a missing field yields).                                             *)
(***************************************************************************)
EXTENDS Integers, Sequences, FiniteSets, TLC

VARIABLES
    env,         \* process.env.HOLDED_API_KEY, fixed for the process
    holded,      \* the SDK singleton: [auth |-> credential last set]
    authWriter,  \* history: the load whose holded.auth call wrote holded.auth
    history,     \* history: how the most recent getContacts calls ended
    loads        \* one record per page load (Home invocation); its fields
                 \* received (the response as the remote sent it), props (the
                 \* list as Home handed it over) and authThrew are history

vars == <<env, holded, authWriter, history, loads>>

----------------------------------------------------------------------------
(* Bounds *)

MaxLen == 3      \* longest `data` list the remote returns
NumLoads == 2    \* page loads that may be in progress at once
MaxHist == 3     \* completed getContacts calls the history remembers

LoadIds == 1..NumLoads

----------------------------------------------------------------------------
(* JavaScript values *)

Str(s) == [t |-> "string", v |-> s]
Num(s) == [t |-> "number", v |-> s]
Null == [t |-> "null", v |-> ""]
Undefined == [t |-> "undefined", v |-> ""]

\* typeof x
TypeOf(x) == IF x.t = "null" THEN "object" ELSE x.t

\* !x for the values that occur (undefined, null and "" are falsy)
Falsy(x) == x.t \in {"undefined", "null"} \/ x = Str("")

----------------------------------------------------------------------------
(* Remote contact records (elements of ListContactsResponse200) *)

Rec(id, customId, name, code, tradeName, email, mobile, phone, type) ==
    [kind |-> "object", id |-> id, customId |-> customId, name |-> name,
     code |-> code, tradeName |-> tradeName, email |-> email,
     mobile |-> mobile, phone |-> phone, type |-> type]

U == Undefined

\* a null element inside `data`
NullElem == [Rec(U, U, U, U, U, U, U, U, U) EXCEPT !.kind = "null"]
\* an undefined element inside `data`
UndefElem == [Rec(U, U, U, U, U, U, U, U, U) EXCEPT !.kind = "undefined"]

Acme == Rec(Str("1"), U, Str("Acme"), U, U, U, U, U, Str("client"))
Bad == Rec(Null, U, Str("Bad"), U, U, U, U, U, U)
Beta == Rec(Str("3"), U, Str("Beta"), U, U, U, U, U, Str("supplier"))
Full == Rec(Str("7"), Str("c7"), Str("Full"), Str("k7"), Str("t7"),
            Str("e7"), Str("m7"), Str("p7"), Str("lead"))
EmptyId == Rec(Str(""), U, Str("Empty"), U, U, Str("e0"), U, U, Str("debtor"))
NumId == Rec(Num("5"), U, Str("Five"), U, U, U, U, Str("p5"), Str("client"))
NoId == Rec(U, Str("c8"), U, U, U, Str("e8"), U, U, Str("lead"))
Odd == Rec(Str("9"), U, Null, Num("9"), U, U, Str("m9"), U, Str("vip"))
Dup == Rec(Str("1"), U, Str("Acme2"), U, Str("t1"), U, U, U, Str("creditor"))
Bare == Rec(Str("2"), U, U, U, U, U, U, U, U)
Blank == Rec(Str("6"), U, U, Str("k6"), U, U, U, Str("p6"), Str(""))
NullType == Rec(Str("4"), Null, U, U, U, U, U, U, Null)

Pool == {Acme, Bad, Beta, Full, EmptyId, NumId, NoId, Odd, Dup, Bare, Blank,
         NullType, NullElem, UndefElem}

RECURSIVE SeqsUpTo(_, _)
SeqsUpTo(S, n) ==
    IF n = 0 THEN {<<>>}
    ELSE LET shorter == SeqsUpTo(S, n - 1)
         IN  shorter \cup {Append(s, e) : s \in {q \in shorter : Len(q) = n - 1}, e \in S}

----------------------------------------------------------------------------
(* Remote responses to listContacts *)

\* the promise resolves with a body whose `data` is a list
Ok(data) == [kind |-> "resolved", body |-> "list", data |-> data]
\* the promise resolves, but the body is null, lacks `data`, or `data` is no list
Malformed(b) == [kind |-> "resolved", body |-> b, data |-> <<>>]
\* the promise rejects (network failure, HTTP error status)
Rejected == [kind |-> "rejected", body |-> "none", data |-> <<>>]
NoResponse == [kind |-> "none", body |-> "none", data |-> <<>>]

MalformedBodies == {"null", "nodata", "notlist"}

Failures == {Rejected} \cup {Malformed(b) : b \in MalformedBodies}

Responses == {Ok(d) : d \in SeqsUpTo(Pool, MaxLen)} \cup Failures

SmallResponses ==
    {Ok(<<>>), Ok(<<Bad>>), Ok(<<Acme, Bad, Beta>>), Rejected, Malformed("nodata")}

----------------------------------------------------------------------------
(* getContacts: the filter-and-map pass and the catch *)

\* contact?.id
OptId(contact) == IF contact.kind = "object" THEN contact.id ELSE Undefined

\* variant: contact?.id !== undefined
HasStringId_loose(contact) == OptId(contact).t # "undefined"

\* typeof contact?.id === 'string'
HasStringId(contact) == TypeOf(OptId(contact)) = "string"

\* variant: a type outside the enumeration is dropped
Project_validated(contact) ==
    [id |-> contact.id, customId |-> contact.customId, name |-> contact.name,
     code |-> contact.code, tradeName |-> contact.tradeName,
     email |-> contact.email, mobile |-> contact.mobile,
     phone |-> contact.phone,
     type |-> IF contact.type \in {Str("client"), Str("supplier"), Str("lead"),
                                   Str("debtor"), Str("creditor")}
              THEN contact.type ELSE Undefined]

\* variant: mobile and phone read from each other's source field
Project_crossed(contact) ==
    [id |-> contact.id, customId |-> contact.customId, name |-> contact.name,
     code |-> contact.code, tradeName |-> contact.tradeName,
     email |-> contact.email, mobile |-> contact.phone,
     phone |-> contact.mobile, type |-> contact.type]

\* the object literal built by .map
Project(contact) ==
    [id |-> contact.id, customId |-> contact.customId, name |-> contact.name,
     code |-> contact.code, tradeName |-> contact.tradeName,
     email |-> contact.email, mobile |-> contact.mobile,
     phone |-> contact.phone, type |-> contact.type]

\* variant: a record whose id was already kept is skipped
FilterMap_unique(data) ==
    LET kept == SelectSeq(data, HasStringId)
        RECURSIVE build(_)
        build(i) ==
            IF i > Len(kept) THEN <<>>
            ELSE IF \A j \in 1..(i - 1) : kept[j].id # kept[i].id
            THEN <<Project(kept[i])>> \o build(i + 1)
            ELSE build(i + 1)
    IN  build(1)

\* contacts.data.filter(...).map(...)
FilterMap(data) ==
    LET kept == SelectSeq(data, HasStringId)
    IN  [i \in 1..Len(kept) |-> Project(kept[i])]

\* variant: the catch logs and rethrows
CatchResult_rethrow == [status |-> "rejected", value |-> <<>>, logged |-> 1]

\* variant: the catch returns a placeholder record describing the error
CatchResult_marker ==
    [status |-> "resolved", logged |-> 1,
     value |-> <<[id |-> Str("error"), customId |-> Undefined,
                  name |-> Str("Error fetching contacts"), code |-> Undefined,
                  tradeName |-> Undefined, email |-> Undefined,
                  mobile |-> Undefined, phone |-> Undefined,
                  type |-> Undefined]>>]

\* catch (error) { console.error(...); return []; }
CatchResult == [status |-> "resolved", value |-> <<>>, logged |-> 1]

\* variant: a module-level flag set by a failure short-circuits later calls
Resume_sticky(resp) ==
    IF \/ resp.kind = "rejected" \/ resp.body # "list"
       \/ (history # <<>> /\ history[Len(history)].failed)
    THEN CatchResult
    ELSE [status |-> "resolved", value |-> FilterMap(resp.data), logged |-> 0]

\* the response object once getContacts has run: filter and map allocate new
\* arrays and the object literal a new record, nothing assigns to the
\* response or to its elements
ResponseAfter(resp) == resp

\* variant: contact.id in place of contact?.id, so that a null or undefined
\* element raises a TypeError inside the filter
Resume_noOptionalChain(resp) ==
    IF \/ resp.kind = "rejected" \/ resp.body # "list"
       \/ \E i \in 1..Len(resp.data) : resp.data[i].kind # "object"
    THEN CatchResult
    ELSE [status |-> "resolved", value |-> FilterMap(resp.data), logged |-> 0]

\* variant: (contacts?.data ?? []) in place of contacts.data, so that a
\* malformed body yields [] without reaching the catch
Resume_lenient(resp) ==
    IF resp.kind = "rejected" THEN CatchResult
    ELSE IF resp.body # "list"
    THEN [status |-> "resolved", value |-> <<>>, logged |-> 0]
    ELSE [status |-> "resolved", value |-> FilterMap(resp.data), logged |-> 0]

\* what follows `await holded.listContacts()`: a rejection, or a TypeError
\* raised by contacts.data.filter on a malformed body, lands in the catch
Resume(resp) ==
    IF resp.kind = "rejected" \/ resp.body # "list"
    THEN CatchResult
    ELSE [status |-> "resolved", value |-> FilterMap(resp.data), logged |-> 0]

\* the credential literal of the first actions module
FixedKey == Str("964f48473d755069d293cd3227d935b1")

Variants == {"env", "fixed"}

\* variant: process.env.HOLDED_API_KEY ?? <the literal key>
Credential_fallback(variant) ==
    IF variant = "env" /\ env # Undefined THEN env ELSE FixedKey

\* the argument of holded.auth in each of the two getContacts definitions
Credential(variant) == IF variant = "env" THEN env ELSE FixedKey

\* the calls getContacts makes on the SDK singleton
AuthCall(cred) ==
    [op |-> "auth", method |-> "none", path |-> "none", arg |-> cred]
\* listContacts() with no metadata: core.fetch('/contacts', 'get', undefined)
ListContactsCall ==
    [op |-> "listContacts", method |-> "get", path |-> "/contacts",
     arg |-> Undefined]

\* variant: a second listContacts call asking for the next page
TryBlockCalls_paged(variant, authThrows) ==
    IF authThrows THEN <<AuthCall(Credential(variant))>>
    ELSE <<AuthCall(Credential(variant)), ListContactsCall,
           [ListContactsCall EXCEPT !.arg = Str("page=2")]>>

\* variant: listContacts called before holded.auth
TryBlockCalls_callFirst(variant, authThrows) ==
    <<ListContactsCall, AuthCall(Credential(variant))>>

\* the SDK calls of the try block up to its await, in program order; an
\* exception out of holded.auth skips the listContacts call
TryBlockCalls(variant, authThrows) ==
    IF authThrows THEN <<AuthCall(Credential(variant))>>
    ELSE <<AuthCall(Credential(variant)), ListContactsCall>>

----------------------------------------------------------------------------
(* ContactsTable *)

\* variant: the debtor and creditor colours exchanged
getTypeColor_swapped(type) ==
    IF Falsy(type) THEN "default"
    ELSE CASE type = Str("client") -> "success"
           [] type = Str("supplier") -> "warning"
           [] type = Str("lead") -> "primary"
           [] type = Str("debtor") -> "secondary"
           [] type = Str("creditor") -> "danger"
           [] OTHER -> "default"

getTypeColor(type) ==
    IF Falsy(type) THEN "default"
    ELSE CASE type = Str("client") -> "success"
           [] type = Str("supplier") -> "warning"
           [] type = Str("lead") -> "primary"
           [] type = Str("debtor") -> "danger"
           [] type = Str("creditor") -> "secondary"
           [] OTHER -> "default"

\* one <TableRow>: its key, its seven cells, the chip inside the TIPO cell
Row(contact) ==
    [key |-> contact.id, name |-> contact.name, email |-> contact.email,
     phone |-> contact.phone, chipColor |-> getTypeColor(contact.type),
     chipLabel |-> contact.type, tradeName |-> contact.tradeName,
     code |-> contact.code, mobile |-> contact.mobile]

\* variant: a contact whose id already appeared gets no row
ContactsTable_dedup(contacts) ==
    LET first(i) == \A j \in 1..(i - 1) : contacts[j].id # contacts[i].id
        RECURSIVE build(_)
        build(i) == IF i > Len(contacts) THEN <<>>
                    ELSE IF first(i) THEN <<Row(contacts[i])>> \o build(i + 1)
                    ELSE build(i + 1)
    IN  build(1)

\* contacts.map(contact => <TableRow ...>)
ContactsTable(contacts) == [i \in 1..Len(contacts) |-> Row(contacts[i])]

\* variant: the table sorts its prop in place (here: reverses it)
ContactsAfterRender_reversed(contacts) ==
    [i \in 1..Len(contacts) |-> contacts[Len(contacts) + 1 - i]]

\* the `contacts` prop once ContactsTable has run: contacts.map allocates the
\* rows and nothing assigns to the prop or to its elements
ContactsAfterRender(contacts) == contacts

----------------------------------------------------------------------------
(* The remote service *)

\* a request carrying no credential string is answered with an error status,
\* which the client turns into a rejection; any other request may get any answer
RemoteMayAnswer(cred, resp) == TypeOf(cred) = "string" \/ resp.kind = "rejected"

----------------------------------------------------------------------------
(* State *)

NoAuth == [t |-> "unset", v |-> ""]

IdleLoad ==
    [pc |-> "idle", variant |-> "env", authThrew |-> FALSE,
     sentCred |-> NoAuth, sentBy |-> 0, response |-> NoResponse,
     status |-> "pending", result |-> <<>>, logged |-> 0, events |-> <<>>,
     invoked |-> 0, props |-> <<>>, rows |-> <<>>,
     received |-> NoResponse, after |-> <<>>]

Init ==
    /\ env \in {Undefined, Str("envkey")}
    /\ holded = [auth |-> NoAuth]
    /\ authWriter = 0
    /\ history = <<>>
    /\ loads = [l \in LoadIds |-> IdleLoad]

----------------------------------------------------------------------------
(* Actions *)

\* Home is invoked and calls getContacts, which runs up to its await:
\* holded.auth(credential), then holded.listContacts().  An exception out of
\* holded.auth is caught by getContacts' try block.
StartLoad(l, variant, authThrows) ==
    /\ loads[l].pc = "idle"
    /\ IF authThrows
       THEN /\ loads' = [loads EXCEPT ![l] =
                   [IdleLoad EXCEPT !.pc = "returned", !.variant = variant,
                                    !.invoked = 1,
                                    !.authThrew = TRUE,
                                    !.events = TryBlockCalls(variant, TRUE),
                                    !.status = CatchResult.status,
                                    !.result = CatchResult.value,
                                    !.logged = CatchResult.logged]]
            /\ UNCHANGED <<holded, authWriter>>
       ELSE /\ holded' = [holded EXCEPT !.auth = Credential(variant)]
            /\ authWriter' = l
            /\ loads' = [loads EXCEPT ![l] =
                   [IdleLoad EXCEPT !.pc = "issued", !.variant = variant,
                                    !.invoked = 1,
                                    !.events = TryBlockCalls(variant, FALSE)]]
    /\ UNCHANGED env

\* The client core builds the request for a pending listContacts call: it
\* prepares the parameters asynchronously and only then reads the auth stored
\* on the singleton, so the read happens at some point after the call.
Send(l) ==
    /\ loads[l].pc = "issued"
    /\ loads' = [loads EXCEPT ![l].pc = "inflight",
                              ![l].sentCred = holded.auth,
                              ![l].sentBy = authWriter]
    /\ UNCHANGED <<env, holded, authWriter>>

\* The listContacts promise settles with one of the given answers and
\* getContacts runs to its return.
Settle(l, answers) ==
    /\ loads[l].pc = "inflight"
    /\ \E resp \in answers :
          /\ RemoteMayAnswer(loads[l].sentCred, resp)
          /\ LET r == Resume(resp)
             IN  loads' = [loads EXCEPT ![l].pc = "returned",
                                        ![l].received = resp,
                                        ![l].response = ResponseAfter(resp),
                                        ![l].status = r.status,
                                        ![l].result = r.value,
                                        ![l].logged = r.logged]
    /\ UNCHANGED <<env, holded, authWriter>>

\* variant: Home renders the table only when there is a contact to show
Render_skipEmpty(l) ==
    /\ loads[l].pc = "returned"
    /\ loads[l].status = "resolved"
    /\ loads[l].result # <<>>
    /\ loads' = [loads EXCEPT ![l].pc = "rendered",
                              ![l].props = loads[l].result,
                              ![l].rows = ContactsTable(loads[l].result),
                              ![l].after = ContactsAfterRender(loads[l].result)]
    /\ UNCHANGED <<env, holded, authWriter>>

\* variant: Home renders without awaiting getContacts
Render_noawait(l) ==
    /\ loads[l].pc \in {"issued", "inflight"}
    /\ loads' = [loads EXCEPT ![l].pc = "rendered",
                              ![l].props = loads[l].result,
                              ![l].rows = ContactsTable(loads[l].result),
                              ![l].after = ContactsAfterRender(loads[l].result)]
    /\ UNCHANGED <<env, holded, authWriter>>

\* Home resumes after `await getContacts()` and renders the table, passing
\* the list it got as the `contacts` prop.
Render(l) ==
    /\ loads[l].pc = "returned"
    /\ loads[l].status = "resolved"
    /\ loads' = [loads EXCEPT ![l].pc = "rendered",
                              ![l].props = loads[l].result,
                              ![l].rows = ContactsTable(loads[l].result),
                              ![l].after = ContactsAfterRender(loads[l].result)]
    /\ UNCHANGED <<env, holded, authWriter>>

\* The page render completes; the load's contacts are discarded.
Discard(l) ==
    /\ loads[l].pc = "rendered"
    /\ loads' = [loads EXCEPT ![l] = IdleLoad]
    /\ UNCHANGED <<env, holded, authWriter>>

----------------------------------------------------------------------------
(* History of completed getContacts calls *)

\* whether the remote call behind a finished load failed
Failed(ld) ==
    ld.authThrew \/ ld.response.kind = "rejected" \/ ld.response.body # "list"

\* append to the history how load ld ended, keeping the last MaxHist entries
Remember(ld) ==
    LET entry == [failed |-> Failed(ld), n |-> Len(ld.result)]
        all == Append(history, entry)
    IN  history' = IF Len(all) > MaxHist THEN Tail(all) ELSE all

----------------------------------------------------------------------------
(* Specifications *)

\* one page load at a time, any remote response
Next ==
    \/ \E v \in Variants, t \in BOOLEAN : StartLoad(1, v, t) /\ UNCHANGED history
    \/ Send(1) /\ UNCHANGED history
    \/ Settle(1, Responses) /\ UNCHANGED history
    \/ Render(1) /\ UNCHANGED history
    \/ Discard(1) /\ UNCHANGED history

Spec == Init /\ [][Next]_vars

\* page loads overlapping in any way, a handful of remote responses
NextLoads ==
    \/ \E l \in LoadIds, v \in Variants, t \in BOOLEAN :
          StartLoad(l, v, t) /\ UNCHANGED history
    \/ \E l \in LoadIds : Send(l) /\ UNCHANGED history
    \/ \E l \in LoadIds : Settle(l, SmallResponses) /\ UNCHANGED history
    \/ \E l \in LoadIds : Render(l) /\ UNCHANGED history
    \/ \E l \in LoadIds : Discard(l) /\ UNCHANGED history

SpecLoads == Init /\ [][NextLoads]_vars

\* page loads one after another, with the history of how each ended
NextSeq ==
    \/ \E v \in Variants :
          StartLoad(1, v, TRUE) /\ Remember(loads'[1])
    \/ \E v \in Variants :
          StartLoad(1, v, FALSE) /\ UNCHANGED history
    \/ Send(1) /\ UNCHANGED history
    \/ Settle(1, SmallResponses) /\ Remember(loads'[1])
    \/ Render(1) /\ UNCHANGED history
    \/ Discard(1) /\ UNCHANGED history

SpecSeq == Init /\ [][NextSeq]_vars

\* one page load at a time, with the progress the runtime guarantees: a
\* pending request is built and sent, and a continuation whose awaited
\* promise has settled is run (Home after getContacts).  Nothing obliges the
\* remote to answer, nor a new page load to start.
LiveResponses ==
    {Ok(d) : d \in SeqsUpTo({Acme, Bad, NullElem}, MaxLen)} \cup Failures

NextLive ==
    \/ \E v \in Variants, t \in BOOLEAN : StartLoad(1, v, t) /\ UNCHANGED history
    \/ Send(1) /\ UNCHANGED history
    \/ Settle(1, LiveResponses) /\ UNCHANGED history
    \/ Render(1) /\ UNCHANGED history
    \/ Discard(1) /\ UNCHANGED history

SpecLive ==
    /\ Init /\ [][NextLive]_vars
    /\ WF_vars(Send(1) /\ UNCHANGED history)
    /\ WF_vars(Render(1) /\ UNCHANGED history)

----------------------------------------------------------------------------
(* Properties *)

AllFields == {"id", "customId", "name", "code", "tradeName", "email",
              "mobile", "phone", "type"}
PassThrough == {"customId", "name", "code", "tradeName", "email", "mobile",
                "phone"}
KnownTypes == {Str("client"), Str("supplier"), Str("lead"), Str("debtor"),
               Str("creditor")}
Colors == {"success", "warning", "primary", "danger", "secondary", "default"}

SameOn(out, in, fields) == \A f \in fields : out[f] = in[f]

\* getContacts of load l has returned
Done(l) == loads[l].pc \in {"returned", "rendered"}

\* the remote call of load l resolved with a list in `data`
GotList(l) ==
    /\ Done(l)
    /\ ~loads[l].authThrew
    /\ loads[l].response.kind = "resolved"
    /\ loads[l].response.body = "list"

IsStringId(c) == c.kind = "object" /\ c.id.t = "string"
IsNonEmptyStringId(c) == IsStringId(c) /\ c.id.v # ""

\* C1: for every list the remote returns in `data`, getContacts returns
\* exactly the records whose id is a non-empty string, in their original
\* relative order.
C1_IdentifierFilter ==
    \A l \in LoadIds :
        GotList(l) =>
            LET kept == SelectSeq(loads[l].response.data, IsNonEmptyStringId)
            IN  /\ loads[l].status = "resolved"
                /\ Len(loads[l].result) = Len(kept)
                /\ \A i \in 1..Len(kept) :
                       SameOn(loads[l].result[i], kept[i], AllFields)

\* C2: when holded.auth throws or the listContacts promise rejects,
\* getContacts resolves to the empty list and never rejects.
C2_FailureMasked ==
    \A l \in LoadIds :
        (Done(l) /\ (loads[l].authThrew \/ loads[l].response.kind = "rejected"))
            => (loads[l].status = "resolved" /\ loads[l].result = <<>>)

C2_Witness ==
    \E a, b \in LoadIds :
        /\ Done(a) /\ loads[a].authThrew /\ loads[a].result = <<>>
        /\ Done(b) /\ loads[b].response = Rejected
        /\ loads[b].status = "resolved"

\* C3: the i-th output record carries customId, name, code, tradeName,
\* email, mobile and phone exactly as the i-th retained input record has
\* them, an absent field staying undefined.
C3_FieldPassthrough ==
    \A l \in LoadIds :
        GotList(l) =>
            LET kept == SelectSeq(loads[l].response.data, IsStringId)
            IN  /\ Len(loads[l].result) = Len(kept)
                /\ \A i \in 1..Len(kept) :
                       SameOn(loads[l].result[i], kept[i], PassThrough)

C3_Witness ==
    \E l \in LoadIds :
        /\ GotList(l)
        /\ loads[l].response.data = <<Full, Bad, Odd>>
        /\ Len(loads[l].result) = 2
        /\ loads[l].result[1].mobile = Str("m7")
        /\ loads[l].result[1].phone = Str("p7")
        /\ loads[l].result[2].name = Null
        /\ loads[l].result[2].email = Undefined

\* C4: every chip colour follows the fixed table: client -> success,
\* supplier -> warning, lead -> primary, debtor -> danger,
\* creditor -> secondary, and any other type value -> default.
C4_ColorTable ==
    \A l \in LoadIds :
        loads[l].pc = "rendered" =>
            \A i \in 1..Len(loads[l].rows) :
                LET type == loads[l].result[i].type
                    color == loads[l].rows[i].chipColor
                IN  /\ color \in Colors
                    /\ type = Str("client") => color = "success"
                    /\ type = Str("supplier") => color = "warning"
                    /\ type = Str("lead") => color = "primary"
                    /\ type = Str("debtor") => color = "danger"
                    /\ type = Str("creditor") => color = "secondary"
                    /\ type \notin KnownTypes => color = "default"

C4_Witness ==
    \E l \in LoadIds :
        /\ loads[l].pc = "rendered"
        /\ loads[l].response.data = <<Dup, Odd, Blank>>
        /\ loads[l].rows[1].chipColor = "secondary"
        /\ loads[l].rows[2].chipColor = "default"
        /\ loads[l].rows[2].chipLabel = Str("vip")
        /\ loads[l].rows[3].chipColor = "default"

\* C5: a list of N contacts is rendered as exactly N rows, the i-th row
\* built from the i-th contact.
C5_RowPerContact ==
    \A l \in LoadIds :
        loads[l].pc = "rendered" =>
            /\ Len(loads[l].rows) = Len(loads[l].result)
            /\ \A i \in 1..Len(loads[l].result) :
                   /\ loads[l].rows[i].key = loads[l].result[i].id
                   /\ loads[l].rows[i].chipLabel = loads[l].result[i].type
                   /\ SameOn(loads[l].rows[i], loads[l].result[i],
                             {"name", "email", "phone", "tradeName", "code",
                              "mobile"})

C5_Witness ==
    \E l \in LoadIds :
        /\ loads[l].pc = "rendered"
        /\ loads[l].response.data = <<Beta, Acme, Dup>>
        /\ Len(loads[l].rows) = 3
        /\ loads[l].rows[1].key = Str("3")
        /\ loads[l].rows[2].key = Str("1")
        /\ loads[l].rows[3].key = Str("1")
        /\ loads[l].rows[3].name = Str("Acme2")

E2EData ==
    <<Rec(Str("1"), U, Str("Acme"), U, U, U, U, U, Str("client")),
      Rec(Null, U, Str("Bad"), U, U, U, U, U, U),
      Rec(Str("3"), U, Str("Beta"), U, U, U, U, U, Str("supplier"))>>

E2EContact(id, name, type) ==
    [id |-> Str(id), customId |-> Undefined, name |-> Str(name),
     code |-> Undefined, tradeName |-> Undefined, email |-> Undefined,
     mobile |-> Undefined, phone |-> Undefined, type |-> Str(type)]

\* C6: for the remote data [{id:"1",name:"Acme",type:"client"},
\* {id:null,name:"Bad"}, {id:"3",name:"Beta",type:"supplier"}] getContacts
\* returns the records with ids "1" and "3" in that order, and the table has
\* two rows with chips success/"client" and warning/"supplier".
C6_EndToEnd ==
    \A l \in LoadIds :
        (GotList(l) /\ loads[l].response.data = E2EData) =>
            /\ loads[l].result = <<E2EContact("1", "Acme", "client"),
                                   E2EContact("3", "Beta", "supplier")>>
            /\ loads[l].pc = "rendered" =>
                   /\ Len(loads[l].rows) = 2
                   /\ loads[l].rows[1].chipColor = "success"
                   /\ loads[l].rows[1].chipLabel = Str("client")
                   /\ loads[l].rows[1].name = Str("Acme")
                   /\ loads[l].rows[2].chipColor = "warning"
                   /\ loads[l].rows[2].chipLabel = Str("supplier")
                   /\ loads[l].rows[2].name = Str("Beta")

C6_Witness ==
    \E l \in LoadIds :
        /\ loads[l].pc = "rendered"
        /\ loads[l].response = Ok(E2EData)
        /\ Len(loads[l].rows) = 2

\* C7: every record in every list getContacts returns has an id that is a
\* non-empty string.
C7_IdNonEmptyString ==
    \A l \in LoadIds :
        Done(l) =>
            \A i \in 1..Len(loads[l].result) :
                /\ loads[l].result[i].id.t = "string"
                /\ loads[l].result[i].id.v # ""

\* C8: what a getContacts call returns is decided by the remote response of
\* that call alone: the empty list when the call failed, the filtered and
\* projected list when it succeeded, whatever the earlier page loads did.
C8_NoCarryOver ==
    \A l \in LoadIds :
        Done(l) =>
            /\ loads[l].status = "resolved"
            /\ Failed(loads[l]) => loads[l].result = <<>>
            /\ ~Failed(loads[l]) =>
                   loads[l].result = FilterMap(loads[l].response.data)

\* a failed load, then a load that returned two contacts, then a failed load
\* that returned none
C8_Witness ==
    /\ loads[1].pc = "returned"
    /\ loads[1].response = Rejected
    /\ loads[1].result = <<>>
    /\ history = <<[failed |-> TRUE, n |-> 0], [failed |-> FALSE, n |-> 2],
                   [failed |-> TRUE, n |-> 0]>>

\* the remote call of load l succeeded with no record that has a string id
ZeroValid(l) ==
    /\ GotList(l)
    /\ \A i \in 1..Len(loads[l].response.data) :
           ~IsStringId(loads[l].response.data[i])

\* C9: a load whose fetch failed and a load whose fetch succeeded with zero
\* valid contacts hand the same value to their caller, and the same rows to
\* the page.
C9_FailureLooksEmpty ==
    \A a, b \in LoadIds :
        (Done(a) /\ Failed(loads[a]) /\ ZeroValid(b)) =>
            /\ loads[a].status = loads[b].status
            /\ loads[a].result = loads[b].result
            /\ (loads[a].pc = "rendered" /\ loads[b].pc = "rendered") =>
                   loads[a].rows = loads[b].rows

C9_Witness ==
    \E a, b \in LoadIds :
        /\ loads[a].pc = "rendered" /\ loads[a].response = Rejected
        /\ loads[b].pc = "rendered" /\ loads[b].response = Ok(<<Bad>>)
        /\ loads[a].rows = <<>> /\ loads[b].rows = <<>>

\* C10: under every interleaving of concurrent page loads, the auth state a
\* load's request is built from is the one that load itself set, and the
\* credential it carries is that load's own.
C10_LoadsIsolated ==
    \A l \in LoadIds :
        (loads[l].pc \in {"inflight", "returned", "rendered"}
            /\ ~loads[l].authThrew) =>
            /\ loads[l].sentBy = l
            /\ loads[l].sentCred = Credential(loads[l].variant)

\* C11: with HOLDED_API_KEY absent, getContacts (the definition reading the
\* environment) does not throw: the request goes out without a credential,
\* the remote refuses it, and getContacts resolves to the empty list.
C11_MissingKeyMasked ==
    \A l \in LoadIds :
        (Done(l) /\ loads[l].variant = "env" /\ env = Undefined) =>
            /\ loads[l].status = "resolved"
            /\ loads[l].result = <<>>

C11_Witness ==
    \E l \in LoadIds :
        /\ env = Undefined
        /\ loads[l].pc = "rendered"
        /\ loads[l].variant = "env"
        /\ loads[l].sentCred = Undefined
        /\ loads[l].response = Rejected
        /\ loads[l].result = <<>>

\* C12: when the remote call resolves with a malformed body (null, no
\* `data`, or `data` not a list) getContacts logs exactly one error and
\* returns the empty list; when it resolves with a list it logs nothing.
C12_MalformedLoggedOnce ==
    \A l \in LoadIds :
        (Done(l) /\ ~loads[l].authThrew /\ loads[l].response.kind = "resolved") =>
            /\ loads[l].status = "resolved"
            /\ loads[l].response.body \in MalformedBodies =>
                   (loads[l].logged = 1 /\ loads[l].result = <<>>)
            /\ loads[l].response.body = "list" => loads[l].logged = 0

C12_Witness ==
    \E l \in LoadIds :
        /\ Done(l)
        /\ loads[l].response = Malformed("notlist")
        /\ loads[l].logged = 1
        /\ loads[l].result = <<>>

\* the listContacts calls among the SDK calls of load l
ListCalls(l) == SelectSeq(loads[l].events, LAMBDA e : e.op = "listContacts")

\* C13 as stated: every getContacts invocation issues exactly one
\* listContacts call.
C13_ExactlyOneCall ==
    \A l \in LoadIds : Done(l) => Len(ListCalls(l)) = 1

\* C13, amended: an invocation whose holded.auth call returns issues exactly
\* one listContacts call, a GET of /contacts without parameters, whether the
\* call succeeds or fails; an invocation whose holded.auth call throws issues
\* none; no other endpoint is called.
C13_OneCallUnlessAuthThrows ==
    \A l \in LoadIds :
        Done(l) =>
            /\ \A i \in 1..Len(loads[l].events) :
                   loads[l].events[i].op \in {"auth", "listContacts"}
            /\ loads[l].authThrew => ListCalls(l) = <<>>
            /\ ~loads[l].authThrew =>
                   ListCalls(l) = <<[op |-> "listContacts", method |-> "get",
                                     path |-> "/contacts", arg |-> Undefined]>>

C13_Witness ==
    \E l \in LoadIds :
        /\ loads[l].pc = "rendered"
        /\ loads[l].response = Rejected
        /\ Len(ListCalls(l)) = 1

\* C14: on each page load Home has called getContacts exactly once, nothing
\* is rendered before that call has returned, and the list ContactsTable
\* receives is the list getContacts returned.
C14_RenderAfterFetch ==
    \A l \in LoadIds :
        /\ loads[l].pc # "idle" => loads[l].invoked = 1
        /\ loads[l].pc # "rendered" =>
               (loads[l].props = <<>> /\ loads[l].rows = <<>>)
        /\ loads[l].pc = "rendered" =>
               /\ loads[l].status = "resolved"
               /\ loads[l].authThrew \/ loads[l].response.kind = "resolved"
                     \/ loads[l].response.kind = "rejected"
               /\ loads[l].props = loads[l].result
               /\ Len(loads[l].rows) = Len(loads[l].props)

C14_Witness ==
    \E l \in LoadIds :
        /\ loads[l].pc = "rendered"
        /\ loads[l].invoked = 1
        /\ loads[l].response = Ok(<<Full, NoId, Bare>>)
        /\ Len(loads[l].props) = 2
        /\ loads[l].props[1].id = Str("7")
        /\ loads[l].props[2].id = Str("2")

\* C15: a retained record whose type is a string outside the enumeration
\* keeps that string as its type in the output, and its chip is rendered
\* with the default colour and the raw string as label.
C15_UnknownTypePassesThrough ==
    \A l \in LoadIds :
        GotList(l) =>
            LET kept == SelectSeq(loads[l].response.data, IsStringId)
            IN  \A i \in 1..Len(kept) :
                    (kept[i].type.t = "string" /\ kept[i].type \notin KnownTypes)
                        => /\ i <= Len(loads[l].result)
                           /\ loads[l].result[i].type = kept[i].type
                           /\ loads[l].pc = "rendered" =>
                                  /\ loads[l].rows[i].chipColor = "default"
                                  /\ loads[l].rows[i].chipLabel = kept[i].type

C15_Witness ==
    \E l \in LoadIds :
        /\ loads[l].pc = "rendered"
        /\ loads[l].response = Ok(<<NumId, Odd, Acme>>)
        /\ loads[l].result[1].type = Str("vip")
        /\ loads[l].rows[1].chipColor = "default"
        /\ loads[l].rows[1].chipLabel = Str("vip")

HasRepeat(seq) ==
    \E i, j \in 1..Len(seq) : i # j /\ seq[i] = seq[j]

\* C17: each row's key is its contact's id and nothing deduplicates: every
\* remote record with a string id gets a row, so the row keys repeat exactly
\* when the remote string ids repeat.
C17_KeysFollowRemoteIds ==
    \A l \in LoadIds :
        (GotList(l) /\ loads[l].pc = "rendered") =>
            LET kept == SelectSeq(loads[l].response.data, IsStringId)
                ids == [i \in 1..Len(kept) |-> kept[i].id]
                keys == [i \in 1..Len(loads[l].rows) |-> loads[l].rows[i].key]
            IN  /\ keys = ids
                /\ HasRepeat(keys) <=> HasRepeat(ids)

C17_Witness ==
    \E l \in LoadIds :
        /\ loads[l].pc = "rendered"
        /\ loads[l].response = Ok(<<Acme, Dup, Acme>>)
        /\ Len(loads[l].rows) = 3
        /\ \A i \in 1..3 : loads[l].rows[i].key = Str("1")

\* C18: in every getContacts invocation the credential passed to
\* holded.auth is the value of the HOLDED_API_KEY environment variable.
C18_CredentialFromEnv ==
    \A l \in LoadIds :
        \A i \in 1..Len(loads[l].events) :
            loads[l].events[i].op = "auth" => loads[l].events[i].arg = env

\* C19: within an invocation holded.auth is called before listContacts, the
\* request is built from an auth state that has been set, and an invocation
\* whose holded.auth call throws never calls listContacts.
C19_AuthBeforeRequest ==
    \A l \in LoadIds :
        /\ \A i \in 1..Len(loads[l].events) :
               loads[l].events[i].op = "listContacts" =>
                   \E j \in 1..(i - 1) : loads[l].events[j].op = "auth"
        /\ loads[l].authThrew => ListCalls(l) = <<>>
        /\ loads[l].pc \in {"inflight", "returned", "rendered"}
               /\ ~loads[l].authThrew => loads[l].sentCred # NoAuth

C19_Witness ==
    \E a, b \in LoadIds :
        /\ loads[a].authThrew
        /\ loads[a].events = <<AuthCall(Credential(loads[a].variant))>>
        /\ loads[b].pc = "inflight"
        /\ Len(loads[b].events) = 2
        /\ loads[b].events[1].op = "auth"
        /\ loads[b].events[2].op = "listContacts"

\* C20: a null or undefined element of `data` does not make getContacts
\* fail: it is dropped, nothing is logged, and every record with a string id
\* before and after it is returned.
C20_NullElementDropped ==
    \A l \in LoadIds :
        (GotList(l) /\ \E i \in 1..Len(loads[l].response.data) :
                           loads[l].response.data[i].kind # "object") =>
            LET kept == SelectSeq(loads[l].response.data, IsStringId)
            IN  /\ loads[l].status = "resolved"
                /\ loads[l].logged = 0
                /\ Len(loads[l].result) = Len(kept)
                /\ \A i \in 1..Len(kept) :
                       SameOn(loads[l].result[i], kept[i], AllFields)

C20_Witness ==
    \E l \in LoadIds :
        /\ Done(l)
        /\ loads[l].response = Ok(<<Acme, NullElem, Full>>)
        /\ Len(loads[l].result) = 2
        /\ loads[l].result[1].id = Str("1")
        /\ loads[l].result[2].id = Str("7")

\* C21: once the remote listContacts call has settled, getContacts has
\* resolved with a list and the page is eventually rendered; while the call
\* is pending getContacts is pending and nothing is rendered, and the only
\* way out of the pending call is the remote's answer (no timeout, no
\* cancellation).
C21_SettledLeadsToRender ==
    /\ [](\A l \in LoadIds :
            /\ Done(l) => loads[l].status = "resolved"
            /\ loads[l].pc \in {"issued", "inflight"} =>
                   /\ loads[l].status = "pending"
                   /\ loads[l].props = <<>>
                   /\ loads[l].rows = <<>>)
    /\ [][\A l \in LoadIds :
            (loads[l].pc = "inflight" /\ loads'[l].pc # "inflight") =>
                /\ loads'[l].pc = "returned"
                /\ loads'[l].received.kind \in {"resolved", "rejected"}]_vars
    /\ \A l \in LoadIds :
           (loads[l].pc = "returned") ~> (loads[l].pc = "rendered")

C21_Witness ==
    \E l \in LoadIds :
        /\ loads[l].pc = "rendered"
        /\ loads[l].received = Malformed("null")
        /\ loads[l].status = "resolved"
        /\ loads[l].rows = <<>>

====
